---- MODULE Spec2Model ----
(***************************************************************************)
(* Model of the database-handle layer of lmdb-zero (src/dbi.rs):           *)
(* Database::open, Database::delete, Database::assert_same_env and         *)
(* DbHandle::drop, together with the environment's open_dbis registry and  *)
(* the engine's dbi table they act on, and the comparator DatabaseOptions  *)
(* installs with sort_keys_as and sort_values_as.                          *)
(***************************************************************************)
EXTENDS Integers, FiniteSets, Sequences, Bags, TLC

VARIABLES
    open_dbis,  \* [Envs -> SUBSET Dbis]: the environment's registry of open dbis
    lock,       \* [Envs -> Threads \cup {NoThread}]: holder of the open_dbis mutex
    dbx,        \* [Envs -> SUBSET (Dbis \X Names)]: engine dbi table, <<dbi, name>> of each open slot
    content,    \* [Envs -> [Names -> {"absent","empty","data"}]]: committed databases
    handles,    \* bag of Database objects owned by the application
    th,         \* [Threads -> record]: each thread's position and locals
    last,       \* the call whose return led to this state (NoCall after any other step)
    lastRel,    \* [Envs -> record]: the latest release of a handle, until its name is opened again
    cmpv        \* a call of an installed comparator by the engine: its two buffers and its result

vars == <<open_dbis, lock, dbx, content, handles, th, last, lastRel, cmpv>>

----------------------------------------------------------------------------
(* Bounds                                                                  *)

\* number of named databases (and of dbi slots reserved by set_maxdbs)
MaxDbs == 1

\* longest byte buffer the engine hands to a comparator
MaxLen == 2

Threads == {"t1", "t2"}
NoThread == "none"
\* the Environment objects of the process; OneEnv is the one the
\* single-environment specifications open databases in
Envs == {"E1", "E2"}
OneEnv == {"E1"}
\* the name None
Unnamed == {0}

----------------------------------------------------------------------------
(* The engine: dbi numbering and mdb_dbi_open                              *)

\* the dbi of the unnamed database (name == None)
MainDbi == 1
\* the first dbi available to named databases
CoreDbs == 2

\* name 0 stands for None, the unnamed database
Names == 0..MaxDbs
NamedDbis == CoreDbs..(CoreDbs + MaxDbs - 1)
Dbis == {MainDbi} \cup NamedDbis

EngineOutcomes == {"ok", "err"}

Min(S) == CHOOSE x \in S : \A y \in S : x <= y

FreeDbis(e) == {d \in NamedDbis : \A p \in dbx[e] : p[1] # d}

\* mdb_dbi_open(txn, name, flags, &raw): the slot the engine hands out.
\* An already open name yields its slot, the unnamed database MainDbi;
\* otherwise the first unused slot is taken (new in this transaction), and
\* a missing database is created only under the CREATE flag.
MdbDbiOpen(e, n, create) ==
    IF n = 0
    THEN [rc |-> "ok", dbi |-> MainDbi, isNew |-> FALSE, created |-> FALSE]
    ELSE IF \E p \in dbx[e] : p[2] = n
    THEN [rc |-> "ok", dbi |-> (CHOOSE d \in NamedDbis : <<d, n>> \in dbx[e]),
          isNew |-> FALSE, created |-> FALSE]
    ELSE IF content[e][n] = "absent" /\ ~create
    THEN [rc |-> "err", dbi |-> 0, isNew |-> FALSE, created |-> FALSE]
    ELSE IF FreeDbis(e) = {}
    THEN [rc |-> "err", dbi |-> 0, isNew |-> FALSE, created |-> FALSE]
    ELSE [rc |-> "ok", dbi |-> Min(FreeDbis(e)), isNew |-> TRUE,
          created |-> (content[e][n] = "absent")]

\* mdb_dbi_close(env, dbi): frees a named slot; a no-op on the core dbis
MdbDbiClose(slots, d) == {p \in slots : p[1] # d \/ d < CoreDbs}

----------------------------------------------------------------------------
(* Thread state                                                            *)

\* pc and the locals of open (name, raw, the comparators read from options,
\* and whether mdb_dbi_open took a new slot or created the database in this
\* transaction); held, reg0 and after record what the call found when it
\* took the mutex: a live handle of its name, the registry, and the pending
\* release of its name.  The flags and comparators of options are drawn
\* where open reads them (lines 481, 487, 494).  steps lists the calls open
\* has made so far, in order, and tx is the state of its transaction.
Idle == [pc |-> "idle", env |-> "none", name |-> 0,
         key_cmp |-> FALSE, val_cmp |-> FALSE, raw |-> 0,
         isNew |-> FALSE, created |-> FALSE, held |-> FALSE,
         reg0 |-> {}, after |-> "none",
         steps |-> <<>>, tx |-> "none"]

NoCall == [op |-> "none", env |-> "none", name |-> 0, dbi |-> 0, res |-> "none",
           held |-> FALSE, reg0 |-> {}, after |-> "none",
           fault |-> FALSE, empty |-> FALSE, closes |-> 0, rels |-> 0,
           other |-> "none",
           key_cmp |-> FALSE, val_cmp |-> FALSE, steps |-> <<>>, tx |-> "none"]

\* `last` describes a return only in the state that return leads to
LastCleared == last' = NoCall

NoRel == [kind |-> "none", name |-> 0]

Handle(e, d, n) == [env |-> e, dbi |-> d, name |-> n]

\* Database objects that still own their dbi: those held by the application
\* (handles), those whose delete failed and whose drop has not run yet, and
\* those whose drop or delete is waiting for the open_dbis mutex.
\* A handle consumed by a successful delete is gone with it: dbi_delete has
\* released its dbi and mem::forget, which touches nothing shared, is taken
\* in the same step.
InFlight == {t \in Threads : th[t].pc \in {"del_err", "drop_lock", "delete_lock"}}
LiveCount(e, d) ==
    LET below[k \in 0..(MaxDbs + 1)] ==
            IF k = 0 THEN 0
            ELSE CopiesIn([env |-> e, dbi |-> d, name |-> k - 1], handles) + below[k - 1]
    IN below[MaxDbs + 1]
       + Cardinality({t \in InFlight : th[t].env = e /\ th[t].raw = d})

LiveFor(e, n) ==
    \/ \E h \in BagToSet(handles) : h.env = e /\ h.name = n
    \/ \E t \in InFlight : th[t].env = e /\ th[t].name = n

\* no comparator call
NoCmp == [a |-> <<>>, b |-> <<>>, which |-> "none", res |-> 2]

Init ==
    /\ open_dbis = [e \in Envs |-> {}]
    /\ lock = [e \in Envs |-> NoThread]
    /\ dbx = [e \in Envs |-> {<<MainDbi, 0>>}]
    /\ content = [e \in Envs |-> [n \in Names |-> IF n = 0 THEN "empty" ELSE "absent"]]
    /\ handles = EmptyBag
    /\ th = [t \in Threads |-> Idle]
    /\ last = NoCall
    /\ lastRel = [e \in Envs |-> NoRel]
    /\ cmpv = NoCmp

----------------------------------------------------------------------------
(* Database::open                                                          *)

\* TxHandle's drop on a transaction that was not committed: mdb_txn_abort
\* closes the slots that were opened in the transaction.
TxAbort(e, t) ==
    IF th[t].isNew THEN {p \in dbx[e] : p[1] # th[t].raw} ELSE dbx[e]

\* variant: one registry for the whole process instead of one per Environment
env_open_dbis_static(e) == "E1"

\* env::env_open_dbis(env): the mutex-guarded registry of this Environment
env_open_dbis(e) == e

\* variant: the result of insert is not looked at (no REOPENED check)
HashSetInsertUnchecked(reg, raw) == [fresh |-> TRUE, set |-> reg \cup {raw}]

\* variant: the test on insert's result is inverted
HashSetInsertInverted(reg, raw) == [fresh |-> raw \in reg, set |-> reg \cup {raw}]

\* variant: a dbi found in the registry is taken out of it
HashSetInsertToggles(reg, raw) ==
    [fresh |-> raw \notin reg,
     set |-> IF raw \in reg THEN reg \ {raw} ELSE reg \cup {raw}]

\* locked_dbis.insert(raw): whether raw was newly inserted, and the set after
HashSetInsert(reg, raw) == [fresh |-> raw \notin reg, set |-> reg \cup {raw}]

\* an open of name n that the engine did not fail ends the wait for it
Reopening(rel, n) == IF rel.name = n THEN NoRel ELSE rel

OpenRet(t, res, d, fault, isEmpty, kc, vc, steps, tx) ==
    [op |-> "open", env |-> th[t].env, name |-> th[t].name, dbi |-> d,
     res |-> res, held |-> th[t].held,
     reg0 |-> th[t].reg0, after |-> th[t].after,
     fault |-> fault, empty |-> isEmpty, closes |-> 0, rels |-> 0,
     other |-> "none",
     key_cmp |-> kc, val_cmp |-> vc, steps |-> steps, tx |-> tx]

\* variant: the raw transaction is not put in a TxHandle
WrapTxRaw == "raw"

\* let mut wrapped_tx = TxHandle(raw_tx): the transaction mdb_txn_begin
\* returned is active and owned by a TxHandle
WrapTx == "scoped"

\* impl Drop for TxHandle: a transaction that was not committed is aborted
TxHandleDrop(tx) == IF tx = "scoped" THEN "aborted" ELSE tx

\* TxHandle::commit: the transaction is handed to mdb_txn_commit, which ends
\* it whether it succeeds or not; the TxHandle is left empty
TxCommit(tx, rc) == IF rc = "ok" THEN "committed" ELSE "failed"

\* variant: an error after the insert takes raw out of the registry again
RegistryOnErrorRemoves(reg, raw) == reg \ {raw}

\* the error returns of lmdb_call! and try! after the insert (lines 488,
\* 495, 500): the registry is left as it is
RegistryOnError(reg, raw) == reg

\* try!(CString::new(s)): a name with an interior NUL is refused before the
\* registry is locked
OpenNulName(t, e) ==
    /\ th[t].pc = "idle"
    /\ last' = [NoCall EXCEPT !.op = "open", !.env = e, !.res = "nul"]
    /\ UNCHANGED <<open_dbis, lock, dbx, content, handles, th, lastRel>>

\* variant: the registry is taken without waiting for its holder
MutexLockBarging(holder, t) == [free |-> TRUE, holder |-> t]

\* Mutex::lock(): returns once no thread holds the mutex, which t then holds
MutexLock(holder, t) == [free |-> holder = NoThread, holder |-> t]

\* env::env_open_dbis(env).lock(): blocks until the mutex is free
OpenLock(t, e, n) ==
    /\ th[t].pc = "idle"
    /\ MutexLock(lock[env_open_dbis(e)], t).free
    /\ lock' = [lock EXCEPT ![env_open_dbis(e)] = MutexLock(@, t).holder]
    /\ th' = [th EXCEPT ![t] =
                [Idle EXCEPT !.pc = "txn_begin", !.env = e, !.name = n,
                             !.held = LiveFor(e, n), !.reg0 = open_dbis[e],
                             !.after = IF lastRel[e].name = n
                                       THEN lastRel[e].kind ELSE "none"]]
    /\ last' = NoCall
    /\ UNCHANGED <<open_dbis, dbx, content, handles, lastRel>>

\* variant: the guard is forgotten and the mutex stays with its holder
MutexGuardLeaked(holder) == holder

\* the MutexGuard locked_dbis goes out of scope, at the end of the block and
\* at every return inside it: the mutex is unlocked
MutexGuardDrop(holder) == NoThread

\* a failing step of open: the scoped transaction (if begun) is aborted, the
\* mutex guard is dropped and the error is returned; open_dbis is left as the
\* steps before left it
OpenFail(t, res, fault, kc, vc) ==
    LET e == th[t].env
        called == Append(th[t].steps, th[t].pc)
        tx == IF th[t].pc = "commit" THEN TxCommit(th[t].tx, "err") ELSE th[t].tx
    IN
    /\ dbx' = [dbx EXCEPT ![e] = TxAbort(e, t)]
    /\ lock' = [lock EXCEPT ![env_open_dbis(e)] = MutexGuardDrop(@)]
    /\ last' = OpenRet(t, res, th[t].raw, fault, FALSE, kc, vc,
                       IF TxHandleDrop(tx) = "aborted"
                       THEN Append(called, "abort") ELSE called,
                       TxHandleDrop(tx))
    /\ lastRel' = [lastRel EXCEPT ![e] = IF fault THEN @ ELSE Reopening(@, th[t].name)]
    /\ th' = [th EXCEPT ![t] = Idle]
    /\ UNCHANGED <<content, handles>>

\* lmdb_call!(ffi::mdb_txn_begin(...))
TxnBegin(t, F) ==
    /\ th[t].pc = "txn_begin"
    /\ \E rc \in F :
         IF rc = "ok"
         THEN /\ th' = [th EXCEPT ![t].pc = "dbi_open", ![t].tx = WrapTx,
                                  ![t].steps = Append(@, "txn_begin")]
              /\ LastCleared /\ UNCHANGED <<open_dbis, lock, dbx, content, handles, lastRel>>
         ELSE /\ UNCHANGED open_dbis
              /\ OpenFail(t, "engine", TRUE, FALSE, FALSE)

\* lmdb_call!(ffi::mdb_dbi_open(raw_tx, name, flags, &mut raw))
DbiOpen(t, create, F) ==
    /\ th[t].pc = "dbi_open"
    /\ LET e == th[t].env
           r == MdbDbiOpen(e, th[t].name, create)
       IN \E rc \in F :
            IF rc = "ok" /\ r.rc = "ok"
            THEN /\ th' = [th EXCEPT ![t].pc = "insert", ![t].raw = r.dbi,
                                     ![t].isNew = r.isNew, ![t].created = r.created,
                                     ![t].steps = Append(@, "dbi_open")]
                 /\ dbx' = [dbx EXCEPT ![e] = @ \cup {<<r.dbi, th[t].name>>}]
                 /\ LastCleared /\ UNCHANGED <<open_dbis, lock, content, handles, lastRel>>
            ELSE /\ UNCHANGED open_dbis
                 /\ OpenFail(t, "engine", TRUE, FALSE, FALSE)

\* variant: the configured comparators are not installed
AfterInsertSkipsCmp(kc, vc) == "commit"

AfterInsert(kc, vc) ==
    IF kc THEN "set_compare"
    ELSE IF vc THEN "set_dupsort" ELSE "commit"

\* if !locked_dbis.insert(raw) { return Err(REOPENED) }
Insert(t, kc, vc) ==
    /\ th[t].pc = "insert"
    /\ LET e == th[t].env
           r == HashSetInsert(open_dbis[env_open_dbis(e)], th[t].raw)
       IN /\ open_dbis' = [open_dbis EXCEPT ![env_open_dbis(e)] = r.set]
          /\ IF r.fresh
             THEN /\ th' = [th EXCEPT ![t].pc = AfterInsert(kc, vc),
                                      ![t].key_cmp = kc, ![t].val_cmp = vc,
                                      ![t].steps = Append(@, "insert")]
                  /\ LastCleared /\ UNCHANGED <<lock, dbx, content, handles, lastRel>>
             ELSE OpenFail(t, "reopened", FALSE, kc, vc)

\* if let Some(fun) = options.key_cmp { lmdb_call!(ffi::mdb_set_compare(...)) }
SetCompare(t, F) ==
    /\ th[t].pc = "set_compare"
    /\ \E rc \in F :
         IF rc = "ok"
         THEN /\ th' = [th EXCEPT ![t].pc = IF th[t].val_cmp THEN "set_dupsort"
                                            ELSE "commit",
                                  ![t].steps = Append(@, "set_compare")]
              /\ LastCleared /\ UNCHANGED <<open_dbis, lock, dbx, content, handles, lastRel>>
         ELSE /\ open_dbis' = [open_dbis EXCEPT ![env_open_dbis(th[t].env)] =
                                   RegistryOnError(@, th[t].raw)]
              /\ OpenFail(t, "engine", TRUE, th[t].key_cmp, th[t].val_cmp)

\* if let Some(fun) = options.val_cmp { lmdb_call!(ffi::mdb_set_dupsort(...)) }
SetDupsort(t, F) ==
    /\ th[t].pc = "set_dupsort"
    /\ \E rc \in F :
         IF rc = "ok"
         THEN /\ th' = [th EXCEPT ![t].pc = "commit",
                                  ![t].steps = Append(@, "set_dupsort")]
              /\ LastCleared /\ UNCHANGED <<open_dbis, lock, dbx, content, handles, lastRel>>
         ELSE /\ open_dbis' = [open_dbis EXCEPT ![env_open_dbis(th[t].env)] =
                                   RegistryOnError(@, th[t].raw)]
              /\ OpenFail(t, "engine", TRUE, th[t].key_cmp, th[t].val_cmp)

\* try!(wrapped_tx.commit()); raw }; Ok(Database { db: DbHandle { env, dbi: raw } })
\* A committed transaction makes a created database exist; the mutex guard
\* is dropped at the end of the block and the Database is built from raw.
Commit(t, F) ==
    /\ th[t].pc = "commit"
    /\ LET e == th[t].env
           n == th[t].name
       IN \E rc \in F :
            IF rc = "ok"
            THEN /\ content' = [content EXCEPT ![e][n] =
                                  IF th[t].created THEN "empty" ELSE @]
                 /\ handles' = handles (+) SetToBag({Handle(e, th[t].raw, n)})
                 /\ lock' = [lock EXCEPT ![env_open_dbis(e)] = MutexGuardDrop(@)]
                 /\ last' = OpenRet(t, "ok", th[t].raw, FALSE,
                                    content'[e][n] = "empty",
                                    th[t].key_cmp, th[t].val_cmp,
                                    Append(th[t].steps, "commit"),
                                    TxCommit(th[t].tx, "ok"))
                 /\ lastRel' = [lastRel EXCEPT ![e] = Reopening(@, n)]
                 /\ th' = [th EXCEPT ![t] = Idle]
                 /\ UNCHANGED <<open_dbis, dbx>>
            ELSE /\ open_dbis' = [open_dbis EXCEPT ![env_open_dbis(e)] =
                                      RegistryOnError(@, th[t].raw)]
                 /\ OpenFail(t, "engine", TRUE, th[t].key_cmp, th[t].val_cmp)

----------------------------------------------------------------------------
(* DbHandle::drop and Database::delete                                     *)

\* env::dbi_close(env, dbi): under the open_dbis mutex, the dbi leaves the
\* registry and is closed at the engine
dbi_close(reg, slots, d) ==
    [reg |-> reg \ {d}, dbx |-> MdbDbiClose(slots, d)]

\* env::dbi_delete(env, dbi), when the engine reports no failure: under the
\* open_dbis mutex a transaction drops the database (mdb_drop with del = 1
\* deletes a named database and closes its dbi, and empties the unnamed
\* one) and commits, and the dbi leaves the registry
dbi_delete(reg, slots, cont, h) ==
    [reg |-> reg \ {h.dbi}, dbx |-> MdbDbiClose(slots, h.dbi),
     content |-> [cont EXCEPT ![h.name] = IF h.name = 0 THEN "empty" ELSE "absent"]]

\* variant: the drop of a DbHandle does not close its dbi
DbHandleDropSkipped(reg, slots, d) ==
    [reg |-> reg, dbx |-> slots, closes |-> 0]

\* impl Drop for DbHandle: env::dbi_close(self.env, self.dbi)
DbHandleDrop(reg, slots, d) ==
    LET r == dbi_close(reg, slots, d)
    IN [reg |-> r.reg, dbx |-> r.dbx, closes |-> 1]

\* mem::forget(self.db): the DbHandle is discarded without running its drop
MemForget(reg, slots, d) ==
    [reg |-> reg, dbx |-> slots, closes |-> 0]

HandleRet(op, h, res, fault, closes, rels) ==
    [NoCall EXCEPT !.op = op, !.env = h.env, !.name = h.name, !.dbi = h.dbi,
                   !.res = res, !.fault = fault, !.closes = closes, !.rels = rels]

\* a Database owned by the application goes out of scope
Drop(t, h) ==
    /\ th[t].pc = "idle"
    /\ BagIn(h, handles)
    /\ lock[h.env] = NoThread
    /\ LET fx == DbHandleDrop(open_dbis[h.env], dbx[h.env], h.dbi) IN
       /\ open_dbis' = [open_dbis EXCEPT ![h.env] = fx.reg]
       /\ dbx' = [dbx EXCEPT ![h.env] = fx.dbx]
       /\ last' = HandleRet("drop", h, "ok", FALSE, fx.closes, fx.closes)
    /\ handles' = handles (-) SetToBag({h})
    /\ lastRel' = [lastRel EXCEPT ![h.env] = [kind |-> "dropped", name |-> h.name]]
    /\ UNCHANGED <<lock, content, th>>

\* variant: delete lets self.db go out of scope instead of forgetting it
DeleteTeardownDrops(reg, slots, d) == DbHandleDrop(reg, slots, d)

\* what delete does with self.db once dbi_delete has succeeded
DeleteTeardown(reg, slots, d) == MemForget(reg, slots, d)

\* pub fn delete(self): try!(env::dbi_delete(self.db.env, self.db.dbi));
\* mem::forget(self.db); Ok(()).  When dbi_delete fails, try! returns the
\* error and self is still to be dropped.
Delete(t, h, F) ==
    /\ th[t].pc = "idle"
    /\ BagIn(h, handles)
    /\ lock[h.env] = NoThread
    /\ handles' = handles (-) SetToBag({h})
    /\ \E rc \in F :
         IF rc = "ok"
         THEN LET del == dbi_delete(open_dbis[h.env], dbx[h.env], content[h.env], h)
                  fx == DeleteTeardown(del.reg, del.dbx, h.dbi)
              IN /\ open_dbis' = [open_dbis EXCEPT ![h.env] = fx.reg]
                 /\ dbx' = [dbx EXCEPT ![h.env] = fx.dbx]
                 /\ content' = [content EXCEPT ![h.env] = del.content]
                 /\ last' = HandleRet("delete", h, "ok", FALSE, fx.closes, 1 + fx.closes)
                 /\ lastRel' = [lastRel EXCEPT ![h.env] =
                                  [kind |-> "deleted", name |-> h.name]]
                 /\ UNCHANGED th
         ELSE /\ th' = [th EXCEPT ![t] =
                          [Idle EXCEPT !.pc = "del_err", !.env = h.env,
                                       !.name = h.name, !.raw = h.dbi]]
              /\ last' = NoCall
              /\ UNCHANGED <<open_dbis, dbx, content, lastRel>>
    /\ UNCHANGED lock

\* the Err return of try!: self goes out of scope and DbHandle::drop runs
DeleteErr(t) ==
    /\ th[t].pc = "del_err"
    /\ LET e == th[t].env
           fx == DbHandleDrop(open_dbis[e], dbx[e], th[t].raw)
       IN /\ lock[e] = NoThread
          /\ open_dbis' = [open_dbis EXCEPT ![e] = fx.reg]
          /\ dbx' = [dbx EXCEPT ![e] = fx.dbx]
          /\ last' = HandleRet("delete", Handle(e, th[t].raw, th[t].name),
                               "engine", TRUE, fx.closes, fx.closes)
    /\ th' = [th EXCEPT ![t] = Idle]
    /\ UNCHANGED <<lock, content, handles, lastRel, cmpv>>

----------------------------------------------------------------------------
(* The same calls with the wait for the mutex as a state of its own        *)

\* Database::open is called: the name is converted and the thread reaches
\* env_open_dbis(env).lock()
OpenCall(t, e, n) ==
    /\ th[t].pc = "idle"
    /\ th' = [th EXCEPT ![t] = [Idle EXCEPT !.pc = "lock", !.env = e, !.name = n]]
    /\ last' = NoCall
    /\ UNCHANGED <<open_dbis, lock, dbx, content, handles, lastRel>>

\* lock() returns: the mutex was free and the thread holds it
OpenAcquire(t) ==
    LET e == th[t].env
        n == th[t].name
    IN
    /\ th[t].pc = "lock"
    /\ MutexLock(lock[env_open_dbis(e)], t).free
    /\ lock' = [lock EXCEPT ![env_open_dbis(e)] = MutexLock(@, t).holder]
    /\ th' = [th EXCEPT ![t] =
                [Idle EXCEPT !.pc = "txn_begin", !.env = e, !.name = n,
                             !.held = LiveFor(e, n), !.reg0 = open_dbis[e],
                             !.after = IF lastRel[e].name = n
                                       THEN lastRel[e].kind ELSE "none"]]
    /\ last' = NoCall
    /\ UNCHANGED <<open_dbis, dbx, content, handles, lastRel>>

\* a Database goes out of scope (what = "drop_lock") or delete is called on
\* it (what = "delete_lock"): the thread owns the handle and reaches the
\* lock() of env::dbi_close or env::dbi_delete
HandleCall(t, h, what) ==
    /\ th[t].pc = "idle"
    /\ BagIn(h, handles)
    /\ handles' = handles (-) SetToBag({h})
    /\ th' = [th EXCEPT ![t] = [Idle EXCEPT !.pc = what, !.env = h.env,
                                             !.name = h.name, !.raw = h.dbi]]
    /\ last' = NoCall
    /\ UNCHANGED <<open_dbis, lock, dbx, content, lastRel>>

DropCall(t, h) == HandleCall(t, h, "drop_lock")

DeleteCall(t, h) == HandleCall(t, h, "delete_lock")

\* impl Drop for DbHandle once the mutex is free: dbi_close runs and returns
DropRun(t) ==
    /\ th[t].pc = "drop_lock"
    /\ LET e == th[t].env
           h == Handle(e, th[t].raw, th[t].name)
           fx == DbHandleDrop(open_dbis[e], dbx[e], h.dbi)
       IN /\ lock[e] = NoThread
          /\ open_dbis' = [open_dbis EXCEPT ![e] = fx.reg]
          /\ dbx' = [dbx EXCEPT ![e] = fx.dbx]
          /\ last' = HandleRet("drop", h, "ok", FALSE, fx.closes, fx.closes)
          /\ lastRel' = [lastRel EXCEPT ![e] = [kind |-> "dropped", name |-> h.name]]
    /\ th' = [th EXCEPT ![t] = Idle]
    /\ UNCHANGED <<lock, content, handles>>

\* Database::delete once the mutex is free: dbi_delete runs; on its error
\* self is still to be dropped
DeleteRun(t, F) ==
    /\ th[t].pc = "delete_lock"
    /\ LET e == th[t].env
           h == Handle(e, th[t].raw, th[t].name)
       IN /\ lock[e] = NoThread
          /\ \E rc \in F :
               IF rc = "ok"
               THEN LET del == dbi_delete(open_dbis[e], dbx[e], content[e], h)
                        fx == DeleteTeardown(del.reg, del.dbx, h.dbi)
                    IN /\ open_dbis' = [open_dbis EXCEPT ![e] = fx.reg]
                       /\ dbx' = [dbx EXCEPT ![e] = fx.dbx]
                       /\ content' = [content EXCEPT ![e] = del.content]
                       /\ last' = HandleRet("delete", h, "ok", FALSE,
                                            fx.closes, 1 + fx.closes)
                       /\ lastRel' = [lastRel EXCEPT ![e] =
                                        [kind |-> "deleted", name |-> h.name]]
                       /\ th' = [th EXCEPT ![t] = Idle]
               ELSE /\ th' = [th EXCEPT ![t].pc = "del_err"]
                    /\ last' = NoCall
                    /\ UNCHANGED <<open_dbis, dbx, content, lastRel>>
    /\ UNCHANGED <<lock, handles>>

\* WriteAccessor::put through a live handle, in a write transaction of its
\* own (the engine admits one write transaction per environment at a time)
InTxn(e) ==
    \E t \in Threads :
        /\ th[t].env = e
        /\ th[t].pc \in {"dbi_open", "insert", "set_compare", "set_dupsort", "commit"}

Put(h) ==
    /\ BagIn(h, handles)
    /\ ~InTxn(h.env)
    /\ content[h.env][h.name] = "empty"
    /\ content' = [content EXCEPT ![h.env][h.name] = "data"]
    /\ last' = NoCall
    /\ UNCHANGED <<open_dbis, lock, dbx, handles, th, lastRel>>

\* variant: the environments are compared by the value of their registries
assert_same_env_by_value(self_env, other_env) ==
    IF open_dbis[self_env] # open_dbis[other_env] THEN "mismatch" ELSE "ok"

\* if self.db.env as *const Environment != other_env as *const Environment
\* { Err(MISMATCH) } else { Ok(()) }
assert_same_env(self_env, other_env) ==
    IF self_env # other_env THEN "mismatch" ELSE "ok"

\* db.assert_same_env(other_env) on a Database the application holds
AssertSameEnv(h, e2) ==
    /\ BagIn(h, handles)
    /\ last' = [NoCall EXCEPT !.op = "assert_same_env", !.env = h.env,
                              !.name = h.name, !.dbi = h.dbi, !.other = e2,
                              !.res = assert_same_env(h.env, e2)]
    /\ UNCHANGED <<open_dbis, lock, dbx, content, handles, th, lastRel, cmpv>>

----------------------------------------------------------------------------
(* DatabaseOptions: the comparator of sort_keys_as and sort_values_as      *)

\* the bytes of a buffer (two bits wide here) and the buffers of an MDB_val
Bytes == 0..3
Buffers == UNION {[1..n -> Bytes] : n \in 0..MaxLen}

\* a byte read as a signed integer of its width (two's complement)
Signed(b) == IF b >= 2 THEN b - 4 ELSE b

\* K is the MyStruct of the example: #[repr(C)] struct { x, y } of two
\* signed integers, here one byte each
SizeOfK == 2

None == [some |-> FALSE, val |-> <<0, 0>>]
Some(v) == [some |-> TRUE, val |-> v]

\* K::from_lmdb_bytes(bytes) for an LmdbRaw type: a reference to the value
\* the bytes hold when there are exactly size_of::<K>() of them, else None
from_lmdb_bytes(buf) ==
    IF Len(buf) = SizeOfK THEN Some(<<Signed(buf[1]), Signed(buf[2])>>) ELSE None

\* #[derive(PartialOrd, Ord)] on MyStruct: x first, then y
KCmp(v, w) ==
    IF v[1] < w[1] THEN "Less"
    ELSE IF v[1] > w[1] THEN "Greater"
    ELSE IF v[2] < w[2] THEN "Less"
    ELSE IF v[2] > w[2] THEN "Greater"
    ELSE "Equal"

\* variant: a value that failed to convert is equal to every value
OptionCmpNoneEqual(p, q) ==
    IF ~p.some \/ ~q.some THEN "Equal" ELSE KCmp(p.val, q.val)

\* variant: a value that failed to convert sorts after every value
OptionCmpNoneLast(p, q) ==
    IF ~p.some /\ ~q.some THEN "Equal"
    ELSE IF ~p.some THEN "Greater"
    ELSE IF ~q.some THEN "Less"
    ELSE KCmp(p.val, q.val)

\* (..).cmp(&(..)) on the two results of from_lmdb_bytes: Ord of Option,
\* None before every Some
OptionCmp(p, q) ==
    IF ~p.some /\ ~q.some THEN "Equal"
    ELSE IF ~p.some THEN "Less"
    ELSE IF ~q.some THEN "Greater"
    ELSE KCmp(p.val, q.val)

\* the engine's own comparison of two buffers, byte by byte and then by length
RECURSIVE BytesCmp(_, _)
BytesCmp(a, b) ==
    IF a = <<>> /\ b = <<>> THEN 0
    ELSE IF a = <<>> THEN -1
    ELSE IF b = <<>> THEN 1
    ELSE IF Head(a) < Head(b) THEN -1
    ELSE IF Head(a) > Head(b) THEN 1
    ELSE BytesCmp(Tail(a), Tail(b))

\* variant: the buffers are compared as bytes, not as K
entry_cmp_as_bytes(a, b) == BytesCmp(a, b)

\* extern fn entry_cmp_as<V>(ap, bp) -> c_int
entry_cmp_as(a, b) ==
    LET o == OptionCmp(from_lmdb_bytes(a), from_lmdb_bytes(b))
    IN CASE o = "Less" -> -1
         [] o = "Equal" -> 0
         [] o = "Greater" -> 1

\* sort_keys_as::<K>(): self.key_cmp = Some(entry_cmp_as::<K>)
sort_keys_as(a, b) == entry_cmp_as(a, b)

\* sort_values_as::<K>(): self.val_cmp = Some(entry_cmp_as::<K>)
sort_values_as(a, b) == entry_cmp_as(a, b)

\* the engine is about to compare two buffers
InitCmp ==
    /\ open_dbis = [e \in Envs |-> {}]
    /\ lock = [e \in Envs |-> NoThread]
    /\ dbx = [e \in Envs |-> {<<MainDbi, 0>>}]
    /\ content = [e \in Envs |-> [n \in Names |-> IF n = 0 THEN "empty" ELSE "absent"]]
    /\ handles = EmptyBag
    /\ th = [t \in Threads |-> Idle]
    /\ last = NoCall
    /\ lastRel = [e \in Envs |-> NoRel]
    /\ \E a \in Buffers, b \in Buffers : cmpv = [NoCmp EXCEPT !.a = a, !.b = b]

\* the engine calls the key comparator (md_cmp) on its two buffers
CompareKeys ==
    /\ cmpv.which = "none"
    /\ cmpv' = [cmpv EXCEPT !.which = "key", !.res = sort_keys_as(cmpv.a, cmpv.b)]
    /\ UNCHANGED <<open_dbis, lock, dbx, content, handles, th, last, lastRel>>

\* the engine calls the value comparator (md_dcmp) on its two buffers
CompareValues ==
    /\ cmpv.which = "none"
    /\ cmpv' = [cmpv EXCEPT !.which = "val", !.res = sort_values_as(cmpv.a, cmpv.b)]
    /\ UNCHANGED <<open_dbis, lock, dbx, content, handles, th, last, lastRel>>

----------------------------------------------------------------------------
(* Specifications                                                          *)

\* the calls of the application; none of them calls a comparator
NextOn(ES, NS, F) ==
  /\ UNCHANGED cmpv
  /\
    \/ \E t \in Threads :
        \/ \E e \in ES : OpenNulName(t, e)
        \/ \E e \in ES, n \in NS : OpenLock(t, e, n)
        \/ TxnBegin(t, F)
        \/ \E create \in BOOLEAN : DbiOpen(t, create, F)
        \/ \E kc \in BOOLEAN, vc \in BOOLEAN : Insert(t, kc, vc)
        \/ SetCompare(t, F)
        \/ SetDupsort(t, F)
        \/ Commit(t, F)
        \/ \E h \in BagToSet(handles) : Drop(t, h)
        \/ \E h \in BagToSet(handles) : Delete(t, h, F)
    \/ \E h \in BagToSet(handles) : Put(h)

\* databases of every name are opened in one environment
NextWith(F) == NextOn(OneEnv, Names, F)

Next ==
    \/ NextWith(EngineOutcomes)
    \/ \E t \in Threads : DeleteErr(t)

Spec == Init /\ [][Next]_vars

\* the same program with an engine that never reports a failure of its own
NextNoFail == NextWith({"ok"})

SpecNoFail == Init /\ [][NextNoFail]_vars

\* two environments in one process, each with its unnamed database (which
\* has the same dbi in both), and assert_same_env on their handles
NextEnvs ==
    \/ NextOn(Envs, Unnamed, EngineOutcomes)
    \/ \E t \in Threads : DeleteErr(t)
    \/ \E h \in BagToSet(handles), e2 \in Envs : AssertSameEnv(h, e2)

SpecEnvs == Init /\ [][NextEnvs]_vars

\* the names opened where the waits for the mutex are states: the unnamed
\* database and one named database
LiveNames == {0, 1}

\* the calls of one environment with their waits for the mutex: a call is
\* issued when its thread reaches lock() and proceeds once the mutex is free
OpenStep(t) ==
    /\ UNCHANGED cmpv
    /\ \/ TxnBegin(t, EngineOutcomes)
       \/ \E create \in BOOLEAN : DbiOpen(t, create, EngineOutcomes)
       \/ \E kc \in BOOLEAN, vc \in BOOLEAN : Insert(t, kc, vc)
       \/ SetCompare(t, EngineOutcomes)
       \/ SetDupsort(t, EngineOutcomes)
       \/ Commit(t, EngineOutcomes)

LockStep(t) ==
    \/ UNCHANGED cmpv /\ OpenAcquire(t)
    \/ UNCHANGED cmpv /\ DropRun(t)
    \/ UNCHANGED cmpv /\ DeleteRun(t, EngineOutcomes)
    \/ DeleteErr(t)

CallStep(t) ==
    /\ UNCHANGED cmpv
    /\ \/ \E e \in OneEnv : OpenNulName(t, e)
       \/ \E e \in OneEnv, n \in LiveNames : OpenCall(t, e, n)
       \/ \E h \in BagToSet(handles) : DropCall(t, h)
       \/ \E h \in BagToSet(handles) : DeleteCall(t, h)

NextLive == \E t \in Threads : CallStep(t) \/ LockStep(t) \/ OpenStep(t)

\* Every engine call made by open returns (weak fairness of the steps of a
\* thread inside open, which nothing disables), and a thread waiting in
\* lock() gets the mutex if it is free again and again (strong fairness of
\* the steps that take it).
Fairness ==
    \A t \in Threads : WF_vars(OpenStep(t)) /\ SF_vars(LockStep(t))

SpecLive == Init /\ [][NextLive]_vars /\ Fairness

\* the comparator on every pair of buffers
NextCmp == CompareKeys \/ CompareValues

SpecCmp == InitCmp /\ [][NextCmp]_vars

----------------------------------------------------------------------------
(* Properties                                                              *)

OpenPcs == {"txn_begin", "dbi_open", "insert", "set_compare", "set_dupsort", "commit"}

\* no open, close or delete is in progress on environment e
Quiescent(e) == lock[e] = NoThread /\ \A t \in Threads : th[t].env # e

\* an open returned that no engine call failed: its answer is that of the
\* registry
Answered == last.op = "open" /\ last.res \in {"ok", "reopened"}

\* C1: in every reachable state, whatever the interleaving of opens, drops
\* and deletes, at most one live Database object wraps a given
\* (environment, dbi) pair.
C1_AtMostOneLive ==
    \A e \in Envs, d \in Dbis : LiveCount(e, d) <= 1

\* an open of a named database was refused while its dbi had a live handle
C1_Witness ==
    /\ last.op = "open" /\ last.res = "reopened" /\ last.name # 0
    /\ LiveCount(last.env, last.dbi) = 1

\* C2: an open of (E, N) made while a handle returned by an earlier open of
\* (E, N) is live, and which the engine does not fail, returns REOPENED and
\* produces no handle: the first handle is still the only one on its dbi.
C2_SecondOpenReopened ==
    (Answered /\ last.held)
        => (last.res = "reopened" /\ LiveCount(last.env, last.dbi) = 1)

\* the unnamed database was opened a second time and refused
C2_Witness ==
    /\ last.op = "open" /\ last.held /\ last.name = 0
    /\ last.res = "reopened"
    /\ \E h \in BagToSet(handles) : h.env = last.env /\ h.name = 0

\* C3: whenever no open, close or delete is in progress on an environment,
\* a dbi is in its open_dbis registry iff exactly one live Database wraps it.
C3_RegistryIffLive ==
    \A e \in Envs : Quiescent(e) =>
        \A d \in Dbis : (d \in open_dbis[e]) <=> (LiveCount(e, d) = 1)

\* C4: when open fails (transaction begin, mdb_dbi_open, REOPENED,
\* comparator installation, commit), open_dbis is the set it was before the
\* call.
C4_FailedOpenLeavesRegistry ==
    (last.op = "open" /\ last.res \in {"engine", "reopened"})
        => open_dbis[last.env] = last.reg0

\* C5: open returns REOPENED only when the dbi the engine returned is
\* wrapped by a live Database.
C5_ReopenedOnlyIfLive ==
    (last.op = "open" /\ last.res = "reopened")
        => LiveCount(last.env, last.dbi) >= 1

\* C6: with an engine that reports no failure, every open of a name that no
\* live handle has succeeds, the live handles of an environment have
\* pairwise distinct dbis, and once no call is in progress the registry
\* holds exactly the dbis of the live handles.
C6_DistinctNamesAllSucceed ==
    /\ (Answered /\ ~last.held) => last.res = "ok"
    /\ \A h1, h2 \in BagToSet(handles) :
         (h1.env = h2.env /\ h1.name # h2.name) => h1.dbi # h2.dbi
    /\ \A h \in BagToSet(handles) : CopiesIn(h, handles) = 1
    /\ \A e \in Envs : Quiescent(e) =>
         open_dbis[e] = {h.dbi : h \in {x \in BagToSet(handles) : x.env = e}}

\* two handles of different names are live on one environment and the
\* registry holds their two dbis
C6_Witness ==
    /\ last.op = "open" /\ last.res = "ok"
    /\ \E h1, h2 \in BagToSet(handles) :
         /\ h1.env = last.env /\ h2.env = last.env
         /\ h1.name # h2.name /\ h1.dbi # h2.dbi
         /\ open_dbis[last.env] = {h1.dbi, h2.dbi}

\* C7: opens on one environment are serialized by the registry mutex: at
\* most one thread is inside open, it holds the mutex, no name has two live
\* handles, and an open the engine does not fail either succeeds with a dbi
\* that was not registered and that no other live handle has, or returns
\* REOPENED because its dbi is that of an already live handle.
C7_SerializedOpens ==
    /\ \A t \in Threads : th[t].pc \in OpenPcs => lock[th[t].env] = t
    /\ \A e \in Envs, n \in Names :
         Cardinality({h \in BagToSet(handles) : h.env = e /\ h.name = n}) <= 1
    /\ Answered =>
         \/ /\ last.res = "ok"
            /\ last.dbi \notin last.reg0
            /\ LiveCount(last.env, last.dbi) = 1
         \/ /\ last.res = "reopened"
            /\ last.dbi \in last.reg0
            /\ LiveCount(last.env, last.dbi) = 1

\* C8: a drop closes the handle's dbi against its environment, and the next
\* open of the same name that the engine does not fail succeeds (it is not
\* answered REOPENED).
C8_OpenAfterDrop ==
    /\ last.op = "drop" =>
         /\ last.dbi \notin open_dbis[last.env]
         /\ last.dbi >= CoreDbs => \A p \in dbx[last.env] : p[1] # last.dbi
    /\ (Answered /\ last.after = "dropped")
         => last.res = "ok"

\* C9: after a successful delete the dbi is no longer registered, and the
\* next open of the same name that the engine does not fail (so, for a named
\* database, one with the CREATE flag) succeeds on an empty database.
C9_OpenAfterDelete ==
    /\ (last.op = "delete" /\ last.res = "ok")
         => last.dbi \notin open_dbis[last.env]
    /\ (Answered /\ last.after = "deleted")
         => (last.res = "ok" /\ last.empty)

\* C10: a successful delete suppresses the handle's teardown: dbi_close is
\* not invoked for the handle, its dbi is released exactly once (by
\* dbi_delete), and no object is left that could close it later.
C10_DeleteSuppressesTeardown ==
    (last.op = "delete" /\ last.res = "ok") =>
        /\ last.closes = 0
        /\ last.rels = 1
        /\ last.dbi \notin open_dbis[last.env]
        /\ LiveCount(last.env, last.dbi) = 0

\* a named database was deleted through its handle
C10_Witness ==
    /\ last.op = "delete" /\ last.res = "ok" /\ last.name # 0
    /\ content[last.env][last.name] = "absent"

\* C11: when delete fails the engine error is returned and the handle's
\* drop runs exactly once: its dbi is closed against its environment, is no
\* longer registered, no object owns it any more, and an open that is given
\* this dbi again would find it fresh in the registry.
C11_FailedDeleteStillCloses ==
    (last.op = "delete" /\ last.fault) =>
        /\ last.res = "engine"
        /\ last.closes = 1
        /\ last.rels = 1
        /\ last.dbi \notin open_dbis[last.env]
        /\ last.dbi >= CoreDbs => \A p \in dbx[last.env] : p[1] # last.dbi
        /\ LiveCount(last.env, last.dbi) = 0
        /\ HashSetInsert(open_dbis[last.env], last.dbi).fresh

\* the delete of a named database failed and its handle was dropped
C11_Witness ==
    /\ last.op = "delete" /\ last.res = "engine" /\ last.name # 0
    /\ last.closes = 1
    /\ content[last.env][last.name] # "absent"

\* C12: assert_same_env(h, E2) returns Ok exactly when E2 is the very
\* environment h was opened against and MISMATCH otherwise, whatever the two
\* environments hold, and the call changes neither the handle, nor a
\* registry, nor the engine's state.
C12_AssertSameEnv ==
    [][last'.op = "assert_same_env" =>
         /\ last'.res = (IF last'.other = last'.env THEN "ok" ELSE "mismatch")
         /\ BagIn(Handle(last'.env, last'.dbi, last'.name), handles')
         /\ UNCHANGED <<open_dbis, lock, dbx, content, handles, th, lastRel>>]_vars

\* a handle was checked against another environment whose registry holds
\* the same dbis as its own, and was refused
C12_Witness ==
    /\ last.op = "assert_same_env" /\ last.res = "mismatch"
    /\ last.other # last.env
    /\ open_dbis[last.other] = open_dbis[last.env]
    /\ BagIn(Handle(last.env, last.dbi, last.name), handles)

\* both buffers of the comparator call convert to K
BothParse == from_lmdb_bytes(cmpv.a).some /\ from_lmdb_bytes(cmpv.b).some

\* the values of K the two buffers hold: each byte a signed integer
ValA == <<Signed(cmpv.a[1]), Signed(cmpv.a[2])>>
ValB == <<Signed(cmpv.b[1]), Signed(cmpv.b[2])>>

\* K's own ordering: by x, and by y among equal x
KLess(v, w) == v[1] < w[1] \/ (v[1] = w[1] /\ v[2] < w[2])

\* C13: on two buffers that both convert to K, the comparator installed by
\* sort_keys_as::<K>() and the one installed by sort_values_as::<K>() return
\* -1, 0 or 1 exactly as K's ordering of the two values is Less, Equal or
\* Greater.
C13_ParsedOrderedAsK ==
    (cmpv.which # "none" /\ BothParse) =>
        /\ (cmpv.res = -1) <=> KLess(ValA, ValB)
        /\ (cmpv.res = 0) <=> (ValA = ValB)
        /\ (cmpv.res = 1) <=> KLess(ValB, ValA)
        /\ cmpv.res \in {-1, 0, 1}

\* the key comparator put (-1, 0) before (0, 0), which the bytes alone
\* order the other way
C13_Witness ==
    /\ cmpv.which = "key" /\ BothParse
    /\ cmpv.res = -1
    /\ ValA = <<-1, 0>> /\ ValB = <<0, 0>>
    /\ cmpv.a[1] > cmpv.b[1]

\* C14 as stated: a buffer that fails to convert compares equal to every
\* other buffer, converting or not, and the comparator reports no error.
C14_UnparsedEqualToAll ==
    (cmpv.which # "none" /\ ~BothParse) => cmpv.res = 0

\* C14 as amended: a buffer that fails to convert compares equal to every
\* other buffer that fails to convert and before every buffer that converts
\* (-1, and 1 with the arguments exchanged); the result is always one of
\* -1, 0, 1, never an error.
C14_UnparsedEqualAmongThemselves ==
    cmpv.which # "none" =>
        /\ cmpv.res \in {-1, 0, 1}
        /\ (~from_lmdb_bytes(cmpv.a).some /\ ~from_lmdb_bytes(cmpv.b).some)
             => cmpv.res = 0
        /\ (~from_lmdb_bytes(cmpv.a).some /\ from_lmdb_bytes(cmpv.b).some)
             => cmpv.res = -1
        /\ (from_lmdb_bytes(cmpv.a).some /\ ~from_lmdb_bytes(cmpv.b).some)
             => cmpv.res = 1

\* a buffer too short for K was compared with one that converts
C14_Witness ==
    /\ cmpv.which = "val"
    /\ Len(cmpv.a) < SizeOfK /\ Len(cmpv.b) = SizeOfK
    /\ cmpv.res = -1

\* the steps of open between mdb_txn_begin's return and the commit or abort
TxnPcs == {"dbi_open", "insert", "set_compare", "set_dupsort", "commit"}

\* C15: open holds the environment's registry mutex from before the
\* transaction begins until the commit or the failing step has returned: a
\* thread anywhere inside open holds the mutex of its environment, a mutex is
\* held only by a thread inside open on that environment, and no two threads
\* are between transaction begin and commit/abort on the same environment.
C15_MutexSpansTransaction ==
    /\ \A t \in Threads :
         th[t].pc \in OpenPcs => lock[th[t].env] = t
    /\ \A e \in Envs :
         lock[e] # NoThread =>
             (th[lock[e]].pc \in OpenPcs /\ th[lock[e]].env = e)
    /\ \A t1, t2 \in Threads :
         (t1 # t2 /\ th[t1].pc \in TxnPcs /\ th[t2].pc \in TxnPcs)
             => th[t1].env # th[t2].env

\* two threads are inside the transactions of their opens at once, each on
\* its own environment
C15_Witness ==
    \E t1, t2 \in Threads :
        /\ t1 # t2
        /\ th[t1].pc = "dbi_open" /\ th[t2].pc = "commit"
        /\ th[t1].env # th[t2].env
        /\ lock[th[t1].env] = t1 /\ lock[th[t2].env] = t2

\* the calls of a successful open with these comparators configured
ExpectedSteps(kc, vc) ==
    <<"txn_begin", "dbi_open", "insert">>
        \o (IF kc THEN <<"set_compare">> ELSE <<>>)
        \o (IF vc THEN <<"set_dupsort">> ELSE <<>>)
        \o <<"commit">>

\* how many of the calls in steps are among S
Count(steps, S) == Cardinality({i \in 1..Len(steps) : steps[i] \in S})

\* C16: a successful open made, in one transaction and in this order,
\* mdb_dbi_open, the registry insertion, mdb_set_compare iff a key
\* comparator was configured, mdb_set_dupsort iff a value comparator was
\* configured, and the commit; its Database exists only from the return
\* after the commit, so none exists while a configured comparator is still
\* to be installed.
C16_OpenStepOrder ==
    /\ (last.op = "open" /\ last.res = "ok") =>
         /\ last.steps = ExpectedSteps(last.key_cmp, last.val_cmp)
         /\ last.tx = "committed"
         /\ BagIn(Handle(last.env, last.dbi, last.name), handles)
    /\ \A t \in Threads :
         th[t].pc \in {"set_compare", "set_dupsort", "commit"} =>
             /\ LiveCount(th[t].env, th[t].raw) = 0
             /\ th[t].tx = "scoped"
             /\ th[t].pc = "commit" =>
                  Append(th[t].steps, "commit")
                      = ExpectedSteps(th[t].key_cmp, th[t].val_cmp)

\* a named database was opened with both comparators configured
C16_Witness ==
    /\ last.op = "open" /\ last.res = "ok" /\ last.name # 0
    /\ last.key_cmp /\ last.val_cmp
    /\ last.steps = <<"txn_begin", "dbi_open", "insert", "set_compare",
                      "set_dupsort", "commit">>

\* C17: an open that fails with REOPENED made no mdb_set_compare, no
\* mdb_set_dupsort and no commit, whatever comparators its options carried:
\* its transaction was aborted, the registry is as it was, the dbi is still
\* registered, and the handle that was live on it is still the one live
\* handle, its dbi still open at the engine.
C17_ReopenedInstallsNothing ==
    (last.op = "open" /\ last.res = "reopened") =>
        /\ last.steps = <<"txn_begin", "dbi_open", "insert", "abort">>
        /\ last.tx = "aborted"
        /\ open_dbis[last.env] = last.reg0
        /\ last.dbi \in open_dbis[last.env]
        /\ last.held =>
             /\ LiveCount(last.env, last.dbi) = 1
             /\ <<last.dbi, last.name>> \in dbx[last.env]

\* an open carrying both comparators was refused for a named database whose
\* handle is live
C17_Witness ==
    /\ last.op = "open" /\ last.res = "reopened" /\ last.name # 0
    /\ last.key_cmp /\ last.val_cmp /\ last.held
    /\ BagIn(Handle(last.env, last.dbi, last.name), handles)

\* C18: when the commit of open fails, after the dbi was inserted into the
\* registry, open returns the engine error, no Database wraps the dbi, and
\* the dbi is in the registry after the return.
C18_CommitFailureKeepsEntry ==
    (last.op = "open" /\ Count(last.steps, {"commit"}) = 1 /\ last.res # "ok") =>
        /\ last.res = "engine"
        /\ last.dbi \notin last.reg0
        /\ last.dbi \in open_dbis[last.env]
        /\ LiveCount(last.env, last.dbi) = 0

\* the commit of the open of a named database failed
C18_Witness ==
    /\ last.op = "open" /\ last.res = "engine" /\ last.name # 0
    /\ last.steps[Len(last.steps)] = "commit"
    /\ last.dbi \in open_dbis[last.env]
    /\ ~LiveFor(last.env, last.name)

\* C19: the transaction open began is finished exactly once when open
\* returns: committed on success; aborted, as the last thing open does, when
\* mdb_dbi_open, the registry insertion (REOPENED) or a comparator
\* installation fails; ended by its failed commit alone when the commit
\* fails; and when mdb_txn_begin itself fails there is none.  No return
\* leaves it active.
C19_TxnFinishedOnce ==
    (last.op = "open" /\ last.res # "nul") =>
        LET began == last.steps # <<"txn_begin">>
            ends == Count(last.steps, {"commit", "abort"})
            final == last.steps[Len(last.steps)]
        IN /\ last.tx \in {"none", "committed", "aborted", "failed"}
           /\ began => ends = 1
           /\ ~began => (ends = 0 /\ last.tx = "none" /\ last.res = "engine")
           /\ last.res = "ok" => (last.tx = "committed" /\ final = "commit")
           /\ (began /\ last.res # "ok" /\ Count(last.steps, {"commit"}) = 0)
                => (last.tx = "aborted" /\ final = "abort")
           /\ (last.res # "ok" /\ Count(last.steps, {"commit"}) = 1)
                => (last.tx = "failed" /\ final = "commit")

\* mdb_set_dupsort failed and the transaction was aborted
C19_Witness ==
    /\ last.op = "open" /\ last.res = "engine"
    /\ last.steps = <<"txn_begin", "dbi_open", "insert", "set_compare",
                      "set_dupsort", "abort">>
    /\ last.tx = "aborted"

\* C20: the registries of different environments are independent: a step
\* changes the registry of an environment only if it is the registry
\* insertion of an open on that environment or a drop or delete of a handle
\* of that environment, and an open is answered REOPENED only for a dbi that
\* was in the registry of its own environment when it took the mutex,
\* whatever dbis the handles of other environments have.
C20_EnvironmentsIndependent ==
    [][/\ \A e2 \in Envs :
            open_dbis'[e2] # open_dbis[e2] =>
                \/ \E t \in Threads : th[t].pc = "insert" /\ th[t].env = e2
                \/ last'.op \in {"drop", "delete"} /\ last'.env = e2
       /\ (last'.op = "open" /\ last'.res = "reopened")
            => last'.dbi \in last'.reg0
       /\ (last'.op = "open" /\ last'.res \in {"ok", "reopened"}
              /\ last'.dbi \notin last'.reg0)
            => last'.res = "ok"]_vars

\* the unnamed database of E2 was opened while a handle on E1 has the same
\* dbi
C20_Witness ==
    /\ last.op = "open" /\ last.env = "E2" /\ last.res = "ok"
    /\ BagIn(Handle("E1", last.dbi, last.name), handles)
    /\ last.dbi \in open_dbis["E1"]

\* a call is in progress on thread t: it waits for the mutex or is inside
\* open, delete or the drop of a handle
Calling(t) == th[t].pc # "idle"

\* C21: under fair scheduling and engine primitives that return, every
\* open, delete and handle drop issued against an environment eventually
\* completes, with success or an error; the registry mutex is free when open
\* returns, whatever its exit path, and is never held by a thread outside
\* open, so that no interleaving of the calls leaves one of them waiting
\* forever.
C21_EveryCallCompletes ==
    /\ \A t \in Threads : Calling(t) ~> ~Calling(t)
    /\ \A e \in OneEnv : (lock[e] # NoThread) ~> (lock[e] = NoThread)
    /\ []((last.op = "open" /\ last.res # "nul") => lock[last.env] = NoThread)
    /\ [](\A e \in OneEnv : lock[e] # NoThread =>
              (th[lock[e]].pc \in OpenPcs /\ th[lock[e]].env = e))

\* an open, a drop or a delete waits for the mutex another thread's open
\* holds, and that open is about to commit
C21_Witness ==
    \E t \in Threads, u \in Threads :
        /\ th[t].pc \in {"lock", "drop_lock", "delete_lock", "del_err"}
        /\ lock[th[t].env] = u
        /\ th[u].pc = "commit"

\* C22: the comparator generated for K is a stateless total preorder over
\* all byte buffers, converting or not: its result on (a, b) is the same
\* whether it is installed for keys or for values and is a function of the
\* two buffers alone, cmp(a, b) = -cmp(b, a), cmp(a, a) = 0, and
\* cmp(a, b) <= 0 with cmp(b, c) <= 0 implies cmp(a, c) <= 0 for every c.
C22_TotalPreorder ==
    cmpv.which # "none" =>
        /\ cmpv.res \in {-1, 0, 1}
        /\ cmpv.res = sort_keys_as(cmpv.a, cmpv.b)
        /\ cmpv.res = sort_values_as(cmpv.a, cmpv.b)
        /\ cmpv.res = -entry_cmp_as(cmpv.b, cmpv.a)
        /\ entry_cmp_as(cmpv.a, cmpv.a) = 0
        /\ \A c \in Buffers :
              (cmpv.res <= 0 /\ entry_cmp_as(cmpv.b, c) <= 0)
                  => entry_cmp_as(cmpv.a, c) <= 0

\* a chain through both kinds of buffer: one that does not convert, before
\* one that does, before a third
C22_Witness ==
    /\ cmpv.which = "key"
    /\ ~from_lmdb_bytes(cmpv.a).some /\ from_lmdb_bytes(cmpv.b).some
    /\ cmpv.res = -1
    /\ \E c \in Buffers :
          entry_cmp_as(cmpv.b, c) = -1 /\ entry_cmp_as(cmpv.a, c) = -1


====
